---- MODULE Spec2Model ----
(***************************************************************************)
(* A model of pi3d's Display (src/pi3d/Display.py): the frame loop driven  *)
(* by loop_running, the sprite registry (sprites, sprites_to_load,         *)
(* sprites_to_unload) mutated under the lock, and destroy.                 *)
(*                                                                         *)
(* One render thread executes loop_running / destroy step by step (pc);    *)
(* other threads call add_sprites, remove_sprites and stop between any two *)
(* of its steps.                                                           *)
(***************************************************************************)
EXTENDS Integers, Sequences, FiniteSets, TLC

\* ------------------------------------------------------------- bounds
NSprites == 2
MaxCalls == 3
MaxDestroy == 2
MaxFaults == 1
MaxOps == 3
MaxThreadOps == 2
MaxAuxOps == 1
MaxTime == 5
TicksPerSecond == 4
Fps == 2

Sprite == 1..NSprites
Resource == {"opengl", "mouse", "tkwin"}

VARIABLES
  sprites,            \* self.sprites: [kind: "list" | "generator", items: the
                      \* elements (list) or the elements still to be yielded
  sprites_to_load,    \* self.sprites_to_load
  sprites_to_unload,  \* self.sprites_to_unload
  internal_loop,      \* self.internal_loop
  external_loop,      \* self.external_loop
  is_running,         \* self.is_running
  lock,               \* self.lock: "free" or "render"
  Display_INSTANCE,   \* Display.INSTANCE: "self" or "None"
  RAISE_EXCEPTIONS,   \* the module flag
  pc,                 \* the render thread's position
  call,               \* the call the render thread is in / was last in
  to_load,            \* _loop_begin's local to_load, in its iteration order
  to_unload,          \* _loop_end's local to_unload
  idx,                \* position of a for loop over a list
  todo,               \* what a for loop over a set has still to visit
  hooks,              \* per sprite, the hook calls it received and the
                      \* add / remove requests made for it, in order
  trace,              \* the phase events of the current call, in order
  outcome,            \* how the last call ended
  attempts,           \* per resource, the release calls issued so far
  failed,             \* the releases that raised in the current / last call
  destroyed,          \* destroy() has completed at least once
  nEnd,               \* end-phases started so far
  nCalls,             \* loop_running calls so far
  nFaults,            \* sprite hook faults so far
  nOps,               \* add_sprites / remove_sprites calls so far
  ALLOW_MULTIPLE_DISPLAYS,  \* the module flag
  second,             \* a second Display object of the process: "none",
                      \* "live", "failed" (its __init__ raised), "destroyed"
  warned,             \* 'A second instance of Display was created' was logged
  frames_per_second,  \* self.frames_per_second (0: the attribute is not set)
  fps_arg,            \* create()'s argument frames_per_second (0: None)
  time,               \* self.time, in ticks (NoTime: the attribute is not set)
  now,                \* time.time(), in ticks
  start,              \* the timestamp the first loop_running took
  slept               \* the last pacing: the clock it read and the time it
                      \* slept for

display == <<sprites, sprites_to_load, sprites_to_unload, internal_loop,
             external_loop, is_running, lock, Display_INSTANCE,
             RAISE_EXCEPTIONS>>
thread == <<pc, call, to_load, to_unload, idx, todo>>
history == <<hooks, trace, outcome, attempts, failed, destroyed, nEnd,
             nCalls, nFaults, nOps>>
process == <<ALLOW_MULTIPLE_DISPLAYS, second, warned>>
pacing == <<frames_per_second, fps_arg, time, now, start, slept>>
vars == <<display, thread, history, process, pacing>>

\* ------------------------------------------------------------ helpers
Range(q) == {q[i] : i \in 1..Len(q)}

\* The orders in which iterating a set can yield its elements.
Orders(S) == {q \in [1..Cardinality(S) -> S] : Range(q) = S}

\* self.time before loop_running has set it.
NoTime == -1

\* 1.0 / self.frames_per_second, in ticks.
Interval(fps) == TicksPerSecond \div fps

NoCall == [op |-> "none", running |-> FALSE, first |-> FALSE,
           afterDestroy |-> FALSE]

\* An entry of a sprite's history: a hook call or a request, the number of
\* end-phases started so far, and the phase the render thread was in.
Event(h, n, ph) == [h |-> h, n |-> n, ph |-> ph]

\* ------------------------------------------------------ initial state
\* create(frames_per_second=fps): Display.__init__ (the first Display of the
\* process), before any call.  create() stores its argument nowhere.
Create(fps) ==
  /\ sprites = [kind |-> "list", items |-> <<>>]
  /\ sprites_to_load = {}
  /\ sprites_to_unload = {}
  /\ internal_loop = FALSE
  /\ external_loop = FALSE
  /\ is_running = TRUE
  /\ lock = "free"
  /\ Display_INSTANCE = "self"
  /\ RAISE_EXCEPTIONS \in BOOLEAN
  /\ pc = "idle"
  /\ call = NoCall
  /\ to_load = <<>>
  /\ to_unload = {}
  /\ idx = 1
  /\ todo = {}
  /\ hooks = [s \in Sprite |-> <<>>]
  /\ trace = <<>>
  /\ outcome = "none"
  /\ attempts = [r \in Resource |-> 0]
  /\ failed = {}
  /\ destroyed = FALSE
  /\ nEnd = 0
  /\ nCalls = 0
  /\ nFaults = 0
  /\ nOps = 0
  /\ ALLOW_MULTIPLE_DISPLAYS = FALSE
  /\ second = "none"
  /\ warned = FALSE
  /\ frames_per_second = 0
  /\ fps_arg = fps
  /\ time = NoTime
  /\ now = 0
  /\ start = NoTime
  /\ slept = [at |-> 0, for |-> 0]

\* create() with no frame rate.
Init == Create(0)

\* ------------------------------------------------- the other threads
\* The phase the render thread is in.
Phase ==
  CASE pc = "idle" -> "idle"
    [] pc \in {"end_lock", "end_swap", "repaint", "swap", "unload",
               "pace"} -> "end"
    [] pc \in {"begin_clear", "begin_lock", "begin_swap", "load"} -> "begin"
    [] OTHER -> "exit"

\* A request for the sprites of S, noted in their histories.
Noted(S, h) ==
  [s \in Sprite |-> IF s \in S THEN Append(hooks[s], Event(h, nEnd, Phase))
                               ELSE hooks[s]]

\* add_sprites(*sprites): under the lock, sprites_to_load.update(sprites).
add_sprites(S) ==
  /\ lock = "free"
  /\ nOps' = nOps + 1
  /\ sprites_to_load' = sprites_to_load \cup S
  /\ hooks' = Noted(S, "add")
  /\ UNCHANGED <<sprites, sprites_to_unload, internal_loop, external_loop,
                 is_running, lock, Display_INSTANCE, RAISE_EXCEPTIONS>>
  /\ UNCHANGED <<thread, trace, outcome, attempts, failed, destroyed,
                 nEnd, nCalls, nFaults>>
  /\ UNCHANGED <<process, pacing>>

\* remove_sprites(*sprites): under the lock, sprites_to_unload.update(sprites).
remove_sprites(S) ==
  /\ lock = "free"
  /\ nOps' = nOps + 1
  /\ sprites_to_unload' = sprites_to_unload \cup S
  /\ hooks' = Noted(S, "remove")
  /\ UNCHANGED <<sprites, sprites_to_load, internal_loop, external_loop,
                 is_running, lock, Display_INSTANCE, RAISE_EXCEPTIONS>>
  /\ UNCHANGED <<thread, trace, outcome, attempts, failed, destroyed,
                 nEnd, nCalls, nFaults>>
  /\ UNCHANGED <<process, pacing>>

\* stop(): clears the running flag.
stop ==
  /\ is_running' = FALSE
  /\ UNCHANGED <<sprites, sprites_to_load, sprites_to_unload, internal_loop,
                 external_loop, lock, Display_INSTANCE, RAISE_EXCEPTIONS>>
  /\ UNCHANGED <<thread, history>>
  /\ UNCHANGED <<process, pacing>>
\* ------------------------------------------------- the render thread
\* The locals of the frame the render thread is in; they are gone when the
\* call has returned or raised (pc' = "idle").
Locals(tl, tu, i, td) ==
  IF pc' = "idle"
    THEN to_load' = <<>> /\ to_unload' = {} /\ idx' = 1 /\ todo' = {}
    ELSE to_load' = tl /\ to_unload' = tu /\ idx' = i /\ todo' = td

\* loop_running(), up to the branch it takes.  A display that is running
\* asserts that it is not in internal-loop mode; the first call records the
\* time and sets external_loop and goes to _loop_begin; a later call goes to
\* _loop_end and then _loop_begin.  A display that is not running goes to
\* _loop_end and then destroy.
loop_running ==
  /\ pc = "idle"
  /\ nCalls < MaxCalls
  /\ nCalls' = nCalls + 1
  /\ call' = [op |-> "loop_running", running |-> is_running,
              first |-> is_running /\ ~external_loop,
              afterDestroy |-> destroyed]
  /\ IF is_running /\ internal_loop
       THEN /\ pc' = "idle"
            /\ outcome' = "AssertionError"
            /\ trace' = <<>>
            /\ UNCHANGED <<external_loop, nEnd, time, start>>
       ELSE /\ outcome' = "pending"
            /\ IF is_running /\ ~external_loop
                 THEN /\ pc' = "begin_clear"
                      /\ external_loop' = TRUE
                      /\ time' = now
                      /\ start' = now
                      /\ trace' = <<>>
                      /\ UNCHANGED nEnd
                 ELSE /\ pc' = "end_lock"
                      /\ nEnd' = nEnd + 1
                      /\ trace' = <<"end">>
                      /\ UNCHANGED <<external_loop, time, start>>
  /\ UNCHANGED <<sprites, sprites_to_load, sprites_to_unload, internal_loop,
                 is_running, lock, Display_INSTANCE, RAISE_EXCEPTIONS>>
  /\ failed' = {}
  /\ UNCHANGED <<to_load, to_unload, idx, todo>>
  /\ UNCHANGED <<hooks, attempts, destroyed, nFaults, nOps>>
  /\ UNCHANGED <<process, frames_per_second, fps_arg, now, slept>>

\* with Locker(self.lock): the render thread takes the lock.
\* _loop_end, line 151.
end_lock ==
  /\ pc = "end_lock"
  /\ lock = "free"
  /\ lock' = "render"
  /\ pc' = "end_swap"
  /\ UNCHANGED <<sprites, sprites_to_load, sprites_to_unload, internal_loop,
                 external_loop, is_running, Display_INSTANCE, RAISE_EXCEPTIONS>>
  /\ UNCHANGED <<call, to_load, to_unload, idx, todo>>
  /\ UNCHANGED history
  /\ UNCHANGED <<process, pacing>>

\* (s for s in self.sprites if s in to_unload): a generator over what
\* self.sprites still yields, keeping the sprites that are in to_unload.
Filter(old, unl) ==
  [kind |-> "generator",
   items |-> SelectSeq(old.items, LAMBDA s : s \in unl)]

\* A Locker that does not release the lock when its block is left.
Unlocked_Held == "render"

\* The lock once the render thread has left a `with Locker(self.lock)` block.
Unlocked == "free"

\* _loop_end, lines 152-154, and the release of the lock.
end_swap ==
  /\ pc = "end_swap"
  /\ sprites_to_unload' = {}
  /\ sprites' = IF sprites_to_unload # {}
                  THEN Filter(sprites, sprites_to_unload) ELSE sprites
  /\ lock' = Unlocked
  /\ pc' = "repaint"
  /\ Locals(to_load, sprites_to_unload, 1, todo)
  /\ UNCHANGED <<sprites_to_load, internal_loop, external_loop, is_running,
                 Display_INSTANCE, RAISE_EXCEPTIONS>>
  /\ UNCHANGED call
  /\ UNCHANGED history
  /\ UNCHANGED <<process, pacing>>

\* What a for loop over self.sprites visits next, and what is left of
\* self.sprites after it: a list is walked by index, a generator is consumed.
HasNext == IF sprites.kind = "list" THEN idx <= Len(sprites.items)
                                    ELSE sprites.items # <<>>
NextSprite == IF sprites.kind = "list" THEN sprites.items[idx]
                                       ELSE Head(sprites.items)
AfterNext == IF sprites.kind = "list" THEN sprites
             ELSE [sprites EXCEPT !.items = Tail(sprites.items)]

\* _for_each_sprite's except clause: whether a fault of the hook leaves the
\* loop (raise) or not.
Reraise == RAISE_EXCEPTIONS

\* A hook call returns, or raises; a fault that is re-raised ends the call.
HookReturns(reraise) ==
  \/ UNCHANGED <<pc, outcome, nFaults>>
  \/ /\ nFaults < MaxFaults
     /\ nFaults' = nFaults + 1
     /\ IF reraise THEN pc' = "idle" /\ outcome' = "SpriteFault"
                   ELSE UNCHANGED <<pc, outcome>>

\* One iteration of _for_each_sprite(lambda s: s.repaint(t)); at its end,
\* on to _swapBuffers.
repaint ==
  /\ pc = "repaint"
  /\ IF HasNext
       THEN /\ hooks' = [hooks EXCEPT ![NextSprite] =
                           Append(@, Event("repaint", nEnd, "end"))]
            /\ sprites' = AfterNext
            /\ HookReturns(Reraise)
            /\ Locals(to_load, to_unload, idx + 1, todo)
       ELSE /\ pc' = "swap"
            /\ Locals(to_load, to_unload, 1, todo)
            /\ UNCHANGED <<hooks, sprites, outcome, nFaults>>
  /\ UNCHANGED <<sprites_to_load, sprites_to_unload, internal_loop,
                 external_loop, is_running, lock, Display_INSTANCE,
                 RAISE_EXCEPTIONS>>
  /\ UNCHANGED call
  /\ UNCHANGED <<trace, attempts, failed, destroyed, nEnd, nCalls, nOps>>
  /\ UNCHANGED <<process, pacing>>

\* self._swapBuffers(), line 159.
swapBuffers ==
  /\ pc = "swap"
  /\ trace' = Append(trace, "swap")
  /\ pc' = "unload"
  /\ Locals(to_load, to_unload, idx, to_unload)
  /\ UNCHANGED display
  /\ UNCHANGED call
  /\ UNCHANGED <<hooks, outcome, attempts, failed, destroyed, nEnd, nCalls, nFaults, nOps>>
  /\ UNCHANGED <<process, pacing>>

\* Whether a fault of unload_opengl leaves _loop_end: lines 161-162 call the
\* hook outside _for_each_sprite, with no try.
UnloadReraise == TRUE

\* A loop_running whose else branch is missing: _loop_begin follows _loop_end
\* whatever the running flag was.
AfterEnd_NoElse == "begin_clear"

\* A loop_running that reads the running flag again after _loop_end.
AfterEnd_Live == IF is_running THEN "begin_clear" ELSE "destroy"

\* Where loop_running goes when _loop_end has returned: the branch was taken
\* on the flag read at line 61.
AfterEnd == IF call.running THEN "begin_clear" ELSE "destroy"

\* One iteration of `for sprite in to_unload: sprite.unload_opengl()`.
unload ==
  /\ pc = "unload"
  /\ IF todo # {}
       THEN \E s \in todo :
              /\ hooks' = [hooks EXCEPT ![s] =
                             Append(@, Event("unload", nEnd, "end"))]
              /\ HookReturns(UnloadReraise)
              /\ Locals(to_load, to_unload, idx, todo \ {s})
              /\ UNCHANGED trace
       ELSE /\ pc' = "pace"
            /\ Locals(to_load, {}, idx, todo)
            /\ UNCHANGED <<hooks, trace, outcome, nFaults>>
  /\ UNCHANGED display
  /\ UNCHANGED call
  /\ UNCHANGED <<attempts, failed, destroyed, nEnd, nCalls,
                 nOps>>
  /\ UNCHANGED <<process, pacing>>

\* The end of _loop_end, lines 164-168.  With no frames_per_second attribute
\* nothing happens.  With one, self.time advances by one interval, the clock
\* is read, and the thread sleeps until self.time if that is later; if
\* loop_running never set self.time, `self.time += ...` raises AttributeError.
pace ==
  /\ pc = "pace"
  /\ IF frames_per_second = 0
       THEN /\ pc' = AfterEnd
            /\ trace' = Append(trace, "end_done")
            /\ UNCHANGED <<outcome, time, now, slept>>
       ELSE IF time = NoTime
         THEN /\ pc' = "idle"
              /\ outcome' = "AttributeError"
              /\ UNCHANGED <<trace, time, now, slept>>
         ELSE LET deadline == time + Interval(frames_per_second)
                  delta == deadline - now
              IN  /\ time' = deadline
                  /\ slept' = [at |-> now,
                               for |-> IF delta > 0 THEN delta ELSE 0]
                  /\ now' = IF delta > 0 THEN deadline ELSE now
                  /\ pc' = AfterEnd
                  /\ trace' = Append(trace, "end_done")
                  /\ UNCHANGED outcome
  /\ Locals(to_load, to_unload, idx, todo)
  /\ UNCHANGED display
  /\ UNCHANGED call
  /\ UNCHANGED <<hooks, attempts, failed, destroyed, nEnd, nCalls, nFaults,
                 nOps>>
  /\ UNCHANGED <<process, frames_per_second, fps_arg, start>>

\* _loop_begin, line 144: self.clear().
begin_clear ==
  /\ pc = "begin_clear"
  /\ trace' = Append(trace, "begin")
  /\ pc' = "begin_lock"
  /\ UNCHANGED display
  /\ UNCHANGED <<call, to_load, to_unload, idx, todo>>
  /\ UNCHANGED <<hooks, outcome, attempts, failed, destroyed, nEnd, nCalls, nFaults, nOps>>
  /\ UNCHANGED <<process, pacing>>

\* _loop_begin, line 145: the render thread takes the lock.
begin_lock ==
  /\ pc = "begin_lock"
  /\ lock = "free"
  /\ lock' = "render"
  /\ pc' = "begin_swap"
  /\ UNCHANGED <<sprites, sprites_to_load, sprites_to_unload, internal_loop,
                 external_loop, is_running, Display_INSTANCE, RAISE_EXCEPTIONS>>
  /\ UNCHANGED <<call, to_load, to_unload, idx, todo>>
  /\ UNCHANGED history
  /\ UNCHANGED <<process, pacing>>

\* self.sprites.extend(to_load): a list appends the elements in the order the
\* set yields them; a generator has no extend.
CanExtend(spr) == spr.kind = "list"
Extend(spr, q) == [spr EXCEPT !.items = @ \o q]

\* _loop_begin, lines 146-147, and the release of the lock.  The pending set
\* is swapped out first; when extend raises AttributeError the swapped-out
\* set is dropped with the frame.
begin_swap ==
  /\ pc = "begin_swap"
  /\ sprites_to_load' = {}
  /\ lock' = Unlocked
  /\ \E q \in Orders(sprites_to_load) :
       IF CanExtend(sprites)
         THEN /\ sprites' = Extend(sprites, q)
              /\ pc' = "load"
              /\ Locals(q, to_unload, 1, todo)
              /\ UNCHANGED outcome
         ELSE /\ pc' = "idle"
              /\ outcome' = "AttributeError"
              /\ Locals(q, to_unload, 1, todo)
              /\ UNCHANGED sprites
  /\ UNCHANGED <<sprites_to_unload, internal_loop, external_loop, is_running,
                 Display_INSTANCE, RAISE_EXCEPTIONS>>
  /\ UNCHANGED call
  /\ UNCHANGED <<hooks, trace, attempts, failed, destroyed, nEnd, nCalls, nFaults, nOps>>
  /\ UNCHANGED <<process, pacing>>

\* One iteration of _for_each_sprite(lambda s: s.load_opengl(), to_load); at
\* its end _loop_begin returns.
load ==
  /\ pc = "load"
  /\ IF idx <= Len(to_load)
       THEN /\ hooks' = [hooks EXCEPT ![to_load[idx]] =
                           Append(@, Event("load", nEnd, "begin"))]
            /\ HookReturns(Reraise)
            /\ Locals(to_load, to_unload, idx + 1, todo)
            /\ UNCHANGED trace
       ELSE /\ pc' = "ret"
            /\ trace' = Append(trace, "begin_done")
            /\ Locals(<<>>, to_unload, 1, todo)
            /\ UNCHANGED <<hooks, outcome, nFaults>>
  /\ UNCHANGED display
  /\ UNCHANGED call
  /\ UNCHANGED <<attempts, failed, destroyed, nEnd, nCalls,
                 nOps>>
  /\ UNCHANGED <<process, pacing>>

\* loop_running, line 74: return self.is_running.
ret ==
  /\ pc = "ret"
  /\ outcome' = IF is_running THEN "true" ELSE "false"
  /\ pc' = "idle"
  /\ UNCHANGED display
  /\ UNCHANGED <<call, to_load, to_unload, idx, todo>>
  /\ UNCHANGED <<hooks, trace, attempts, failed, destroyed, nEnd, nCalls, nFaults, nOps>>
  /\ UNCHANGED <<process, pacing>>

\* ------------------------------------------------------------ destroy
\* The releases of destroy, in the order it issues them.
ReleaseOrder == <<"opengl", "mouse", "tkwin">>

\* A destroy whose releases sit in no try: the first failure leaves it.
Swallows_NoTry == FALSE

\* Display.INSTANCE after the __init__ of a display `new`, lines 38-42: only
\* a display constructed while there is none becomes the instance.
InstanceAfterInit(new) ==
  IF Display_INSTANCE # "None" THEN Display_INSTANCE ELSE new

\* Display.INSTANCE after a destroy of display d, line 120.
InstanceAfterDestroy(d) == "None"

\* Each release sits in its own `try: ... except: pass`.
Swallows == TRUE

\* The releases destroy issues when those of `fails` raise: all of them when
\* each failure is swallowed, else those up to the first that raises.
Attempted(fails) ==
  IF Swallows THEN Resource
  ELSE {ReleaseOrder[i] : i \in {j \in 1..3 :
          \A k \in 1..(j - 1) : ReleaseOrder[k] \notin fails}}

\* Whether destroy raises when the releases of `fails` raise.
Raises(fails) == ~Swallows /\ fails # {}

\* destroy(): stop(), the three releases, Display.INSTANCE = None.
Destroy(fails) ==
  /\ is_running' = FALSE
  /\ attempts' = [r \in Resource |->
                    IF r \in Attempted(fails) THEN attempts[r] + 1
                                              ELSE attempts[r]]
  /\ failed' = fails \cap Attempted(fails)
  /\ destroyed' = TRUE
  /\ Display_INSTANCE' = IF Raises(fails) THEN Display_INSTANCE
                                          ELSE InstanceAfterDestroy("self")
  /\ UNCHANGED <<sprites, sprites_to_load, sprites_to_unload, internal_loop,
                 external_loop, lock, RAISE_EXCEPTIONS>>
  /\ UNCHANGED <<to_load, to_unload, idx, todo>>
  /\ UNCHANGED <<hooks, nEnd, nFaults, nOps>>
  /\ UNCHANGED <<process, pacing>>

\* destroy() called by the application (or by __del__); F holds the
\* combinations of releases that may raise.
destroy(F) ==
  /\ pc = "idle"
  /\ call' = [op |-> "destroy", running |-> is_running, first |-> FALSE,
              afterDestroy |-> destroyed]
  /\ trace' = <<"destroy">>
  /\ \E fails \in F :
       /\ Destroy(fails)
       /\ outcome' = IF Raises(fails) THEN "ReleaseError" ELSE "ok"
  /\ UNCHANGED <<pc, nCalls>>

\* loop_running, line 72: self.destroy() after the final _loop_end.
loop_destroy(F) ==
  /\ pc = "destroy"
  /\ trace' = Append(trace, "destroy")
  /\ \E fails \in F :
       /\ Destroy(fails)
       /\ IF Raises(fails)
            THEN pc' = "idle" /\ outcome' = "ReleaseError"
            ELSE pc' = "ret" /\ UNCHANGED outcome
  /\ UNCHANGED <<call, nCalls>>

\* ------------------------------------------- the displays of a process
\* The application sets the module flag ALLOW_MULTIPLE_DISPLAYS.
allow_multiple_displays ==
  /\ ~ALLOW_MULTIPLE_DISPLAYS
  /\ ALLOW_MULTIPLE_DISPLAYS' = TRUE
  /\ UNCHANGED <<second, warned>>
  /\ UNCHANGED <<display, thread, history, pacing>>

\* Display.__init__ of a second Display object, lines 38-42: with an instance
\* in place, `assert ALLOW_MULTIPLE_DISPLAYS` raises AssertionError when the
\* flag is off, and else the warning is logged.
Display_init ==
  /\ pc = "idle"
  /\ second = "none"
  /\ call' = [op |-> "Display", running |-> is_running, first |-> FALSE,
              afterDestroy |-> Display_INSTANCE = "None"]
  /\ trace' = <<>>
  /\ IF Display_INSTANCE # "None" /\ ~ALLOW_MULTIPLE_DISPLAYS
       THEN /\ second' = "failed"
            /\ outcome' = "AssertionError"
            /\ UNCHANGED <<warned, Display_INSTANCE>>
       ELSE /\ second' = "live"
            /\ outcome' = "ok"
            /\ warned' = (warned \/ Display_INSTANCE # "None")
            /\ Display_INSTANCE' = InstanceAfterInit("second")
  /\ UNCHANGED <<sprites, sprites_to_load, sprites_to_unload, internal_loop,
                 external_loop, is_running, lock, RAISE_EXCEPTIONS>>
  /\ UNCHANGED <<pc, to_load, to_unload, idx, todo>>
  /\ UNCHANGED <<hooks, attempts, failed, destroyed, nEnd, nCalls, nFaults,
                 nOps>>
  /\ UNCHANGED <<ALLOW_MULTIPLE_DISPLAYS, pacing>>

\* destroy() of the second Display object: by the application, by its own
\* loop_running after stop, or by __del__ (line 182), which also runs for an
\* object whose __init__ raised.
second_destroy ==
  /\ pc = "idle"
  /\ second \in {"live", "failed"}
  /\ second' = "destroyed"
  /\ Display_INSTANCE' = InstanceAfterDestroy("second")
  /\ call' = [op |-> "second.destroy", running |-> is_running,
              first |-> FALSE, afterDestroy |-> destroyed]
  /\ trace' = <<>>
  /\ outcome' = "ok"
  /\ UNCHANGED <<sprites, sprites_to_load, sprites_to_unload, internal_loop,
                 external_loop, is_running, lock, RAISE_EXCEPTIONS>>
  /\ UNCHANGED <<pc, to_load, to_unload, idx, todo>>
  /\ UNCHANGED <<hooks, attempts, failed, destroyed, nEnd, nCalls, nFaults,
                 nOps>>
  /\ UNCHANGED <<ALLOW_MULTIPLE_DISPLAYS, warned, pacing>>

\* --------------------------------------------------------- the clock
\* Time passes.
tick ==
  /\ now < MaxTime
  /\ now' = now + 1
  /\ UNCHANGED <<frames_per_second, fps_arg, time, start, slept>>
  /\ UNCHANGED <<display, thread, history, process>>

\* The application sets the attribute _loop_end looks for (line 164), before
\* its first loop_running.
set_frames_per_second ==
  /\ pc = "idle"
  /\ nCalls = 0
  /\ frames_per_second = 0
  /\ frames_per_second' = Fps
  /\ UNCHANGED <<fps_arg, time, now, start, slept>>
  /\ UNCHANGED <<display, thread, history, process>>

\* ------------------------------------------------ the blocking loop
\* The alternate entry point, loop(), is not part of Display.py as it stands
\* (loop_running's assert names it); it is modelled from the design: it is
\* refused on a display in external-loop mode, else it sets internal_loop and
\* runs the frames itself until the running flag is cleared, then destroys
\* the display.  Its frames are not followed: only its entry and its two ways
\* out are.
loop_enter ==
  /\ pc = "idle"
  /\ nCalls < MaxCalls
  /\ nCalls' = nCalls + 1
  /\ call' = [op |-> "loop", running |-> is_running, first |-> FALSE,
              afterDestroy |-> destroyed]
  /\ trace' = <<>>
  /\ failed' = {}
  /\ IF external_loop
       THEN pc' = "idle" /\ outcome' = "InvalidLoopMode"
            /\ UNCHANGED internal_loop
       ELSE pc' = "looping" /\ outcome' = "pending" /\ internal_loop' = TRUE
  /\ UNCHANGED <<sprites, sprites_to_load, sprites_to_unload, external_loop,
                 is_running, lock, Display_INSTANCE, RAISE_EXCEPTIONS>>
  /\ UNCHANGED <<to_load, to_unload, idx, todo>>
  /\ UNCHANGED <<hooks, attempts, destroyed, nEnd, nFaults, nOps>>
  /\ UNCHANGED <<process, pacing>>

\* loop() returns: the running flag was cleared, the display is destroyed.
loop_exit(F) ==
  /\ pc = "looping"
  /\ ~is_running
  /\ pc' = "idle"
  /\ outcome' = "ok"
  /\ trace' = <<"destroy">>
  /\ \E fails \in F : Destroy(fails)
  /\ UNCHANGED <<call, nCalls>>

\* loop() is left by a sprite fault of one of its frames that the fault
\* policy re-raises.
loop_raise ==
  /\ pc = "looping"
  /\ is_running
  /\ RAISE_EXCEPTIONS
  /\ nFaults < MaxFaults
  /\ nFaults' = nFaults + 1
  /\ pc' = "idle"
  /\ outcome' = "SpriteFault"
  /\ UNCHANGED display
  /\ UNCHANGED <<call, to_load, to_unload, idx, todo>>
  /\ UNCHANGED <<hooks, trace, attempts, failed, destroyed, nEnd, nCalls,
                 nOps>>
  /\ UNCHANGED <<process, pacing>>

\* ------------------------------------------------------ specification
\* The steps of loop_running, but for its destroy.
Frame ==
  \/ loop_running
  \/ end_lock
  \/ end_swap
  \/ repaint
  \/ swapBuffers
  \/ unload
  \/ pace
  \/ begin_clear
  \/ begin_lock
  \/ begin_swap
  \/ load
  \/ ret

\* The calls of the application, for the sets of sprites it may pass.
Args == (SUBSET Sprite) \ {{}}

\* The combinations of releases that raise: none, or any.
NoFailure == {{}}
AnyFailure == SUBSET Resource

\* One thread: the application calls add_sprites, remove_sprites and stop
\* between its calls of loop_running; no release raises.
Next ==
  \/ pc = "idle" /\ nOps < MaxOps /\ \E S \in Args : add_sprites(S)
  \/ pc = "idle" /\ nOps < MaxOps /\ \E S \in Args : remove_sprites(S)
  \/ pc = "idle" /\ stop
  \/ Frame
  \/ loop_destroy(NoFailure)

Spec == Init /\ [][Next]_vars

\* Several threads: add_sprites, remove_sprites and stop are called by other
\* threads between any two steps of the render thread.
NextThreads ==
  \/ nOps < MaxThreadOps /\ \E S \in Args : add_sprites(S)
  \/ nOps < MaxThreadOps /\ \E S \in Args : remove_sprites(S)
  \/ stop
  \/ Frame
  \/ loop_destroy(NoFailure)

SpecThreads == Init /\ [][NextThreads]_vars

\* Teardown: the application also calls destroy, and any combination of the
\* releases may raise; it may have set frames_per_second.
NextDestroy ==
  \/ set_frames_per_second
  \/ pc = "idle" /\ nOps < MaxAuxOps /\ \E S \in Args : add_sprites(S)
  \/ pc = "idle" /\ nOps < MaxAuxOps /\ \E S \in Args : remove_sprites(S)
  \/ pc = "idle" /\ stop
  \/ Frame
  \/ loop_destroy(AnyFailure)
  \/ attempts["opengl"] < MaxDestroy /\ destroy(AnyFailure)

SpecDestroy == Init /\ [][NextDestroy]_vars

\* Loop modes: the application uses loop() as well as loop_running; other
\* threads call add_sprites, remove_sprites and stop meanwhile.
NextModes ==
  \/ nOps < MaxAuxOps /\ \E S \in Args : add_sprites(S)
  \/ nOps < MaxAuxOps /\ \E S \in Args : remove_sprites(S)
  \/ stop
  \/ Frame
  \/ loop_destroy(NoFailure)
  \/ loop_enter
  \/ loop_exit(NoFailure)
  \/ loop_raise

SpecModes == Init /\ [][NextModes]_vars

\* Two displays: the application constructs a second Display, with or
\* without the module flag, and destroys either.
NextDisplays ==
  \/ pc = "idle" /\ nOps < MaxAuxOps /\ \E S \in Args : add_sprites(S)
  \/ pc = "idle" /\ stop
  \/ Frame
  \/ loop_destroy(NoFailure)
  \/ attempts["opengl"] < MaxDestroy /\ destroy(NoFailure)
  \/ allow_multiple_displays
  \/ Display_init
  \/ second_destroy

SpecDisplays == Init /\ [][NextDisplays]_vars

\* Pacing: the display is created with or without a frame rate, the
\* application may set frames_per_second itself, and time passes between the
\* steps of the render thread.
InitPacing == \E fps \in {0, Fps} : Create(fps)

NextPacing ==
  \/ pc = "idle" /\ nOps < MaxAuxOps /\ \E S \in Args : add_sprites(S)
  \/ pc = "idle" /\ stop
  \/ Frame
  \/ loop_destroy(NoFailure)
  \/ set_frames_per_second
  \/ tick

SpecPacing == InitPacing /\ [][NextPacing]_vars
\* ------------------------------------------------------------- claims
HookNames == {"load", "repaint", "unload"}

\* The positions of a sprite's history that hold a call of hook h.
At(s, h) == {i \in 1..Len(hooks[s]) : hooks[s][i].h = h}

\* C1: for every sequence of add_sprites / remove_sprites / loop_running
\* calls and every sprite, no repaint comes before the sprite's load, and no
\* hook call (load, repaint, unload) comes after its unload.  Stated for the
\* runs in which no hook has raised and the display is still running.
C1_HookOrder ==
  (nFaults = 0 /\ is_running) =>
    \A s \in Sprite :
      /\ \A i \in At(s, "repaint") : \E j \in At(s, "load") : j < i
      /\ \A i \in At(s, "unload") :
           \A j \in (i + 1)..Len(hooks[s]) : hooks[s][j].h \notin HookNames

\* The first position of a sprite's history that holds h (0: none).
First(s, h) == IF At(s, h) = {} THEN 0
               ELSE CHOOSE i \in At(s, h) : \A j \in At(s, h) : i <= j

\* Sprite s was added once, loaded, and then, between two calls of
\* loop_running, passed to remove_sprites for the first time, at position r
\* of its history.
RemovedWhileActive(s, r) ==
  /\ r = First(s, "remove") /\ r > 0
  /\ hooks[s][r].ph = "idle"
  /\ Cardinality({i \in At(s, "add") : i < r}) = 1
  /\ \E i \in At(s, "load") : i < r
  /\ \A i \in At(s, "unload") : i > r

\* C2: a loaded, active sprite passed to remove_sprites during frame N is
\* repainted exactly once more, in the end-phase that commits the removal
\* and before its unload, and in no later end-phase.  Stated for the runs in
\* which no hook has raised.
C2_OneFinalRepaint ==
  nFaults = 0 =>
    \A s \in Sprite : \A r \in 1..Len(hooks[s]) :
      (RemovedWhileActive(s, r) /\ First(s, "unload") > 0) =>
        LET u == First(s, "unload")
            after == {i \in At(s, "repaint") : i > r}
        IN  /\ Cardinality(after) = 1
            /\ \A i \in after : i < u /\ hooks[s][i].n = hooks[s][u].n
\* Sprite s was passed to add_sprites once, by another thread while
\* end-phase N was in progress, and never to remove_sprites.
AddedDuringEnd(s, N) ==
  /\ Cardinality(At(s, "add")) = 1
  /\ hooks[s][First(s, "add")].ph = "end"
  /\ hooks[s][First(s, "add")].n = N
  /\ At(s, "remove") = {}

\* The repaint pass of end-phase N is over.
Repainted(N) ==
  nEnd > N \/ (nEnd = N /\ \E i \in 1..Len(trace) : trace[i] = "swap")

\* C3: a sprite added by another thread while end-phase N is in progress is
\* not repainted in end-phase N, is loaded by the next begin-phase and is
\* repainted in end-phase N+1.  Stated for the runs in which no hook has
\* raised and the display is still running.
C3_AddedMidFrame ==
  (nFaults = 0 /\ is_running) =>
    \A s \in Sprite : \A N \in 1..nEnd :
      AddedDuringEnd(s, N) =>
        /\ \A i \in At(s, "repaint") : hooks[s][i].n # N
        /\ Repainted(N + 1) =>
             /\ \E i \in At(s, "load") : hooks[s][i].n = N
             /\ \E i \in At(s, "repaint") : hooks[s][i].n = N + 1
\* The last call was loop_running and has returned or raised.
Returned == pc = "idle" /\ call.op = "loop_running"

BeginOnly == <<"begin", "begin_done">>
EndThenBegin == <<"end", "swap", "end_done", "begin", "begin_done">>

\* C4: while the running flag is set, the first loop_running sets
\* external_loop, executes only the begin-phase and returns true; every later
\* call executes the end-phase and then the begin-phase and returns true,
\* after any sequence of add_sprites / remove_sprites calls.  Stated for the
\* runs in which no hook has raised.
C4_PhaseSequence ==
  (Returned /\ call.running /\ nFaults = 0) =>
    /\ outcome = "true"
    /\ external_loop
    /\ trace = IF call.first THEN BeginOnly ELSE EndThenBegin
FinalEndThenDestroy == <<"end", "swap", "end_done", "destroy">>

C6_UseAfterDestroy ==
  (Returned /\ call.afterDestroy /\ nFaults = 0) =>
    /\ outcome = "UseAfterDestroy"
    /\ trace = <<>>
    /\ \A r \in Resource : attempts[r] <= 1

\* C7: destroy() called twice in succession raises no error, and each owned
\* resource is released at most once over the display's lifetime.
C7_DestroyIdempotent ==
  (pc = "idle" /\ call.op = "destroy") =>
    /\ outcome = "ok"
    /\ \A r \in Resource : attempts[r] <= 1

\* C8: destroy() is best-effort and never raises: whichever releases raise,
\* a step that issues a release issues all three, leaves the running flag
\* cleared, and does not end in an error.
C8_BestEffort ==
  [][attempts' # attempts =>
       /\ \A r \in Resource : attempts'[r] = attempts[r] + 1
       /\ ~is_running'
       /\ outcome' # "ReleaseError"
       /\ pc' \in {"idle", "ret"}]_vars

\* C8's case: a destroy() in which all three releases raised has returned.
C8_Witness ==
  /\ pc = "idle" /\ call.op = "destroy" /\ outcome = "ok"
  /\ failed = Resource
  /\ \A r \in Resource : attempts[r] = 1

\* C9: when a sprite hook (load, repaint, unload) raises, the phase goes on
\* to the next sprite if RAISE_EXCEPTIONS is off, and the call ends with the
\* fault if it is on.
C9_FaultPolicy ==
  [][nFaults' > nFaults =>
       IF RAISE_EXCEPTIONS
         THEN pc' = "idle" /\ outcome' = "SpriteFault"
         ELSE pc' = pc /\ outcome' = outcome]_vars
\* C10: internal_loop and external_loop are never both true, and a
\* loop_running on a display in internal-loop mode ends in an error
\* (AssertionError, "Use only one of loop and loop_running").  Stated for a
\* display that has not been destroyed.
C10_LoopModes ==
  /\ ~(internal_loop /\ external_loop)
  /\ (Returned /\ internal_loop /\ ~call.afterDestroy) =>
       outcome = "AssertionError"

\* C11: constructing a second Display while one is in place and
\* ALLOW_MULTIPLE_DISPLAYS is not set logs a warning and raises no error, and
\* after every construction the display constructed last is Display.INSTANCE.
C11_SecondDisplay ==
  (pc = "idle" /\ call.op = "Display") =>
    /\ outcome = "ok"
    /\ Display_INSTANCE = "second"
    /\ ~call.afterDestroy => warned

\* C12: destroying a display clears Display.INSTANCE only if that display is
\* the instance: with two live displays, the first of them Display.INSTANCE,
\* a destroy of the second (by the application, by its loop_running after
\* stop, or by __del__) leaves Display.INSTANCE at the first.
C12_DestroyKeepsCurrent ==
  [][(second = "live" /\ second' = "destroyed" /\ ~destroyed
        /\ Display_INSTANCE = "self") => Display_INSTANCE' = "self"]_vars

\* A step of stop() that clears the flag (destroy clears it too, and issues
\* the releases).
StopStep == is_running /\ ~is_running' /\ attempts' = attempts

\* C13: stop() only clears the running flag: the active sequence, the pending
\* sets, the loop-mode flags, the pacing clock and Display.INSTANCE are
\* unchanged, no hook is invoked and the render thread is where it was; a
\* loop_running in flight on the running branch that returns has executed
\* all its phase steps and no teardown; the teardown is done by a
\* loop_running that was called with the flag cleared, after its end-phase.
C13_StopCooperative ==
  [][/\ StopStep =>
          /\ UNCHANGED <<sprites, sprites_to_load, sprites_to_unload,
                         internal_loop, external_loop, lock, Display_INSTANCE>>
          /\ UNCHANGED <<time, frames_per_second, hooks, trace, thread>>
     /\ (call.op = "loop_running" /\ call.running /\ pc # "idle"
           /\ pc' = "idle" /\ outcome' \in {"true", "false"}) =>
          /\ trace' = IF call.first THEN BeginOnly ELSE EndThenBegin
          /\ attempts' = attempts
     /\ (call.op = "loop_running" /\ attempts' # attempts) =>
          /\ ~call.running
          /\ trace' = FinalEndThenDestroy]_vars

\* C13's case: stop() came while a loop_running was in flight on the running
\* branch; the call went through its end-phase and begin-phase, a sprite
\* was loaded by it, and nothing has been released.
C13_Witness ==
  /\ Returned /\ call.running /\ ~call.first /\ ~is_running
  /\ trace = EndThenBegin
  /\ \E s \in Sprite : \E i \in At(s, "load") : hooks[s][i].n = nEnd
  /\ \A r \in Resource : attempts[r] = 0

\* Sprite s was passed to add_sprites exactly once and never to
\* remove_sprites.
AddedOnce(s) == Cardinality(At(s, "add")) = 1 /\ At(s, "remove") = {}

\* The repaints sprite s received in end-phase m.
RepaintsIn(s, m) ==
  Cardinality({j \in At(s, "repaint") : hooks[s][j].n = m})

\* C14: a sprite added once, between two calls, and never removed is loaded
\* exactly once, by the begin-phase of the first loop_running that follows
\* the addition, and repainted exactly once in every end-phase after that
\* and in none before.  Stated for the runs in which no hook has raised and
\* the display is still running.
C14_LoadOnceRepaintEach ==
  (nFaults = 0 /\ is_running) =>
    \A s \in Sprite :
      (AddedOnce(s) /\ hooks[s][First(s, "add")].ph = "idle") =>
        LET N == hooks[s][First(s, "add")].n
            loads == At(s, "load")
        IN  /\ Cardinality(loads) <= 1
            /\ nEnd >= N + 2 => loads # {}
            /\ loads = {} => At(s, "repaint") = {}
            /\ \A i \in loads :
                 /\ i > First(s, "add")
                 /\ hooks[s][i].n \in {N, N + 1}
                 /\ \A m \in 1..nEnd :
                      IF m <= hooks[s][i].n THEN RepaintsIn(s, m) = 0
                      ELSE Repainted(m) => RepaintsIn(s, m) = 1

\* The active sprites that are not in the set unl, in their order.
Kept(old, unl) == SelectSeq(old.items, LAMBDA s : s \notin unl)

\* C15: the unload commit of _loop_end swaps the pending-unload set for an
\* empty one and, when the swapped-out set is not empty, leaves as the active
\* sequence exactly the active sprites that are not in it, in their order.
\* Stated for the runs in which no hook has raised.
C15_UnloadCommit ==
  [][(pc = "end_swap" /\ pc' = "repaint" /\ nFaults = 0) =>
       /\ sprites_to_unload' = {}
       /\ to_unload' = sprites_to_unload
       /\ sprites'.items = Kept(sprites, sprites_to_unload)]_vars

\* C16: in every reachable state a sprite of the pending-load set is not in
\* the active sequence, the active sequence holds no sprite twice, and every
\* sprite of the pending-unload set is in the active sequence.
C16_Registry ==
  /\ \A s \in sprites_to_load : s \notin Range(sprites.items)
  /\ \A i, j \in 1..Len(sprites.items) :
       sprites.items[i] = sprites.items[j] => i = j
  /\ \A s \in sprites_to_unload : s \in Range(sprites.items)

\* The end-phases whose pacing is over.
Paced == IF Phase = "end" THEN nEnd - 1 ELSE nEnd

\* C17: with a frame rate configured, the deadline (self.time) starts at the
\* timestamp of the first loop_running and is one interval further after
\* each end-phase, whatever the time the frame took; an end-phase sleeps for
\* deadline - now when that is positive and not at all otherwise, and does
\* so without error; nothing sleeps before the first end-phase; with no
\* frame rate configured nothing sleeps at all.  Stated for the runs in
\* which no hook has raised.
C17_FramePacing ==
  nFaults = 0 =>
    IF fps_arg # 0 \/ frames_per_second # 0
      THEN /\ outcome # "AttributeError"
           /\ start # NoTime => time = start + Paced * Interval(Fps)
           /\ slept.for = IF Paced > 0 /\ time - slept.at > 0
                            THEN time - slept.at ELSE 0
      ELSE slept.for = 0

\* The render thread is in a sprite hook pass, the buffer swap or the pacing.
InHooks == pc \in {"repaint", "swap", "unload", "pace", "load"}

\* C18: the render thread holds the lock only for the swap of a pending set
\* and the update of the active sequence: whenever it is in a sprite hook
\* pass (load, repaint, unload), the buffer swap or the pacing sleep, the
\* lock is free, so add_sprites and remove_sprites can proceed.
C18_LockScope ==
  /\ InHooks => lock = "free"
  /\ lock = "render" => pc \in {"end_swap", "begin_swap"}

\* C18's case: while the render thread is in its load pass with a hook still
\* to call, another thread has added a sprite (it is pending, and was not in
\* the swapped-out set).
C18_Witness ==
  /\ pc = "load" /\ idx <= Len(to_load)
  /\ lock = "free"
  /\ \E s \in sprites_to_load :
       /\ s \notin Range(to_load)
       /\ hooks[s][Len(hooks[s])] = Event("add", nEnd, "begin")

\* How often sprite s occurs in the active sequence.
Occurs(s) == Cardinality({i \in 1..Len(sprites.items) : sprites.items[i] = s})

\* C19: no add is lost or applied twice under interleaving: a sprite that
\* add_sprites was called for once (at any point of the render thread's
\* frame) and that was never removed is either still pending, or was
\* swapped out and put in the active sequence by the begin-phase in
\* progress, or has been loaded; it is never loaded twice and never loaded
\* while pending.  Stated for the runs in which no hook has raised and the
\* display is still running.
C19_NoAddLost ==
  (nFaults = 0 /\ is_running) =>
    \A s \in Sprite :
      AddedOnce(s) =>
        /\ Cardinality(At(s, "load")) <= 1
        /\ Occurs(s) <= 1
        /\ \/ s \in sprites_to_load /\ At(s, "load") = {}
           \/ /\ s \notin sprites_to_load
              /\ pc = "load" /\ s \in Range(to_load) /\ Occurs(s) = 1
           \/ s \notin sprites_to_load /\ At(s, "load") # {}

\* C20: loop_running returns false only from a call that found the running
\* flag cleared and itself executed the final end-phase and destroy; a call
\* that took the running branch returns true, whenever stop() comes.
C20_FalseOnlyAfterDestroy ==
  (Returned /\ outcome = "false") =>
    /\ ~call.running
    /\ trace = FinalEndThenDestroy
    /\ \A r \in Resource : attempts[r] >= 1
====
